---- MODULE Spec2Model ----
(***************************************************************************)
(* Model of kg-frontend/src/server.py: the FastAPI gateway in front of the *)
(* Neo4j graph store and of the builder / enricher control scripts.       *)
(*                                                                         *)
(* Text is modelled as sequences of one-character strings, so that the    *)
(* conversions of the code (int(), str(), the splice of the relationship  *)
(* type between backticks, CONTAINS) are computed and not assumed.        *)
(***************************************************************************)
EXTENDS Integers, Sequences, FiniteSets, Bags, TLC

VARIABLES
    names,     \* the store's Concept nodes: node id i has name names[i + 1]
    edges,     \* the store's relationships: a bag of [source, target, type]
    running,   \* per worker: whether its external process is alive
    launched,  \* per worker: start-script launches since it last was stopped
    req        \* per connection: the request it carries and its progress

vars == <<names, edges, running, launched, req>>

--------------------------------------------------------------------------
(* Bounds of the model.                                                    *)

MaxConcepts == 2
MaxSearchConcepts == 12
MaxEdges == 2
MaxRequests == 2
MaxLaunches == 2

(* LIMIT 10 of the search query.                                           *)
SearchLimit == 10

Requests == 1..MaxRequests
Workers == {"builder", "enricher"}

NoVal == <<>>

--------------------------------------------------------------------------
(* Text.                                                                   *)

Digits == <<"0", "1", "2", "3", "4", "5", "6", "7", "8", "9">>

IsDigit(c) == \E d \in 1..10 : Digits[d] = c

DigitValue(c) == (CHOOSE d \in 1..10 : Digits[d] = c) - 1

RECURSIVE Str(_)
(* Python's str() of a non-negative int.                                   *)
Str(n) == IF n < 10 THEN <<Digits[n + 1]>>
          ELSE Str(n \div 10) \o <<Digits[(n % 10) + 1]>>

RECURSIVE DigitsValue(_, _)
DigitsValue(s, acc) ==
    IF s = <<>> THEN acc
    ELSE DigitsValue(Tail(s), 10 * acc + DigitValue(Head(s)))

(* Python's int() of a text over digits, signs and letters: an optional    *)
(* sign and at least one digit, anything else raises ValueError.           *)
ParseInt(s) ==
    LET signed == s # <<>> /\ Head(s) \in {"+", "-"}
        body == IF signed THEN Tail(s) ELSE s
    IN  IF body = <<>> \/ \E i \in 1..Len(body) : ~IsDigit(body[i])
        THEN [ok |-> FALSE, value |-> 0]
        ELSE [ok |-> TRUE,
              value |-> IF signed /\ Head(s) = "-"
                        THEN 0 - DigitsValue(body, 0)
                        ELSE DigitsValue(body, 0)]

(* Cypher's CONTAINS: q occurs in name as a contiguous, case-sensitive run. *)
Contains(name, q) ==
    \E i \in 0..(Len(name) - Len(q)) : SubSeq(name, i + 1, i + Len(q)) = q

(* The backtick character (U+0060), which a string of the module cannot   *)
(* hold; every other character is a one-character string.                  *)
Backtick == "BACKTICK"

RECURSIVE Unquote(_, _)
(* The relationship type as Cypher reads it once spliced between the two   *)
(* backticks of the statement: a doubled backtick is one escaped backtick, *)
(* a single one closes the identifier. A single backtick inside the text   *)
(* lets the rest spill into the statement, and one at its end pairs with   *)
(* the statement's closing backtick and leaves the identifier open: over   *)
(* the alphabet of the model both are syntax errors.                       *)
Unquote(t, acc) ==
    IF t = <<>> THEN [ok |-> TRUE, type |-> acc]
    ELSE IF Head(t) # Backtick THEN Unquote(Tail(t), Append(acc, Head(t)))
    ELSE IF Len(t) >= 2 /\ t[2] = Backtick
         THEN Unquote(Tail(Tail(t)), Append(acc, Backtick))
    ELSE [ok |-> FALSE, type |-> acc]

(* The statement of create_relationship after .format(relationship.type):  *)
(* the edge type it names, or a syntax error (an empty type is no token).  *)
SplicedType(t) ==
    LET u == Unquote(t, <<>>)
    IN  IF u.ok /\ u.type # <<>> THEN u ELSE [ok |-> FALSE, type |-> <<>>]

--------------------------------------------------------------------------
(* The store, as the queries of the code see it.                           *)

ConceptIds == 0..(Len(names) - 1)

StoreVersion == Len(names) + BagCardinality(edges)

(* MATCH (n:Concept) RETURN id(n) AS id, n.name AS name, each row turned   *)
(* into {"id": str(id), "name": name}.                                     *)
NodeRows == { [id |-> Str(i), name |-> names[i + 1]] : i \in ConceptIds }

LinkRowOf(e) == [source |-> Str(e.source), target |-> Str(e.target), type |-> e.type]

(* MATCH (a:Concept)-[r]->(b:Concept): one row per relationship, parallel  *)
(* relationships included, each turned into a link with string ids. The    *)
(* list of links is kept as a bag: the store decides the order of rows.    *)
LinkRows ==
    LET links == { LinkRowOf(e) : e \in BagToSet(edges) }
    IN  [ l \in links |-> edges[CHOOSE e \in BagToSet(edges) : LinkRowOf(e) = l] ]

(* A count that reads the relationships where it should read the Concepts. *)
ConceptCountOfRelationships == BagCardinality(edges)

(* MATCH (n:Concept) RETURN count(n).                                      *)
ConceptCount == Len(names)

(* MATCH ()-[r]->() RETURN count(r).                                       *)
RelationshipCount == BagCardinality(edges)

(* The search without its LIMIT.                                           *)
SearchResultsUnlimited(q) == { { n \in NodeRows : Contains(n.name, q) } }

(* MATCH (n:Concept) WHERE n.name CONTAINS $query ... LIMIT 10: the rows    *)
(* the store may answer with. Which rows it keeps when more than the limit *)
(* match is the store's choice.                                            *)
SearchResults(q) ==
    LET match == { n \in NodeRows : Contains(n.name, q) }
    IN  IF Cardinality(match) <= SearchLimit THEN {match}
        ELSE { S \in SUBSET match : Cardinality(S) = SearchLimit }

--------------------------------------------------------------------------
(* Request bodies. A JSON value is its type and Python's str() of it.      *)

JsonInt(s) == [t |-> "int", v |-> s]
JsonStr(s) == [t |-> "str", v |-> s]
JsonMissing == [t |-> "missing", v |-> ""]

(* class BuilderParams: one str field and four int fields, all required.   *)
(* The wrongly typed values of the model are texts that are no number,    *)
(* which no version of the validation coerces.                             *)
ValidBuilderParams(p) ==
    /\ p.seedConcept.t = "str"
    /\ p.maxNodes.t = "int"
    /\ p.timeout.t = "int"
    /\ p.randomRelationships.t = "int"
    /\ p.concurrency.t = "int"

(* class EnricherParams: four required int fields.                         *)
ValidEnricherParams(p) ==
    /\ p.batchSize.t = "int"
    /\ p.interval.t = "int"
    /\ p.maxRelationships.t = "int"
    /\ p.concurrency.t = "int"

(* class RelationshipCreate: three str fields; any text passes.            *)
ValidRelationshipCreate(p) == TRUE

(* q: str = Query(..., min_length=1).                                      *)
ValidSearchQuery(q) == Len(q) >= 1

(* What FastAPI checks before it calls the handler.                        *)
ValidRequest(kind, arg) ==
    CASE kind = "start_builder" -> ValidBuilderParams(arg)
      [] kind = "start_enricher" -> ValidEnricherParams(arg)
      [] kind = "create_relationship" -> ValidRelationshipCreate(arg)
      [] kind = "search_concepts" -> ValidSearchQuery(arg.q)
      [] OTHER -> TRUE

(* The requests the clients of the model send.                             *)
Names == { <<"a", "b">>, <<"b">> }

RelationshipInputs ==
    { [source |-> <<"0">>, target |-> <<"1">>, type |-> <<"A">>],
      [source |-> <<"0">>, target |-> <<"1">>, type |-> <<Backtick, Backtick>>],
      [source |-> <<"0">>, target |-> <<"1">>, type |-> <<"A", Backtick>>],
      [source |-> <<"0">>, target |-> <<"7">>, type |-> <<"A">>],
      [source |-> <<"x">>, target |-> <<"1">>, type |-> <<"A">>] }

GraphInputs ==
    { [kind |-> "get_graph_data", arg |-> NoVal],
      [kind |-> "get_statistics", arg |-> NoVal] }
    \cup { [kind |-> "create_relationship", arg |-> a] : a \in RelationshipInputs }

SearchInputs ==
    { [kind |-> "search_concepts", arg |-> [q |-> q]] :
        q \in { <<"a">>, <<"b">>, <<"b", "a">>, <<>> } }

GoodBuilderParams ==
    [seedConcept |-> JsonStr("Physics"), maxNodes |-> JsonInt("50"), timeout |-> JsonInt("60"),
     randomRelationships |-> JsonInt("5"), concurrency |-> JsonInt("2")]

GoodEnricherParams ==
    [batchSize |-> JsonInt("10"), interval |-> JsonInt("60"),
     maxRelationships |-> JsonInt("100"), concurrency |-> JsonInt("2")]

WorkerInputs ==
    { [kind |-> "start_builder", arg |-> GoodBuilderParams],
      [kind |-> "start_builder", arg |-> [GoodBuilderParams EXCEPT !.maxNodes = JsonStr("many")]],
      [kind |-> "start_builder", arg |-> [GoodBuilderParams EXCEPT !.concurrency = JsonMissing]],
      [kind |-> "stop_builder", arg |-> NoVal],
      [kind |-> "start_enricher", arg |-> GoodEnricherParams],
      [kind |-> "start_enricher", arg |-> [GoodEnricherParams EXCEPT !.batchSize = JsonStr("all")]],
      [kind |-> "stop_enricher", arg |-> NoVal] }

--------------------------------------------------------------------------
(* Connections.                                                            *)

(* What the model records about a request besides its response:            *)
(*   ver1, ver2  the store's version when its first, second query ran      *)
(*   n           create_relationship: the Concepts in the store when its   *)
(*               statement ran                                             *)
(*   delta       relationships it created                                  *)
(*   scripts     scripts it launched                                       *)
(*   live        the worker was alive when its script ran                  *)
(*   fails       store queries and scripts that failed under it            *)
NoObs == [ver1 |-> -1, ver2 |-> -1, n |-> -1, delta |-> 0,
          scripts |-> 0, live |-> FALSE, fails |-> 0]

Idle == [kind |-> "none", arg |-> NoVal, pc |-> "idle", loc |-> NoVal,
         status |-> 0, body |-> NoVal, sent |-> 0, obs |-> NoObs]

Init ==
    /\ names = <<>>
    /\ edges = EmptyBag
    /\ running = [w \in Workers |-> FALSE]
    /\ launched = [w \in Workers |-> 0]
    /\ req = [r \in Requests |-> Idle]

(* The handlers are coroutines (async def) of one event loop and none of   *)
(* them awaits: a handler runs from its call to its return, blocking calls *)
(* included, before the loop takes the next request.                       *)
LoopFree == \A r \in Requests : req[r].pc \notin {"running", "second"}

Reply(status, body) == [status |-> status, body |-> body]

Finish(r, reply, obs) ==
    req' = [req EXCEPT ![r] = [@ EXCEPT !.pc = "done", !.loc = NoVal,
                                        !.status = reply.status,
                                        !.body = reply.body,
                                        !.sent = @ + 1,
                                        !.obs = obs]]

(* A client sends a request; it is carried by the first free connection.   *)
Arrive(r, inputs) ==
    /\ req[r].pc = "idle"
    /\ \A other \in 1..(r - 1) : req[other].pc # "idle"
    /\ \E i \in inputs : req' = [req EXCEPT ![r] = [Idle EXCEPT !.kind = i.kind,
                                                               !.arg = i.arg,
                                                               !.pc = "queued"]]
    /\ UNCHANGED <<names, edges, running, launched>>

(* The loop takes a waiting request: a request that fails validation is    *)
(* answered 422 without its handler being called.                          *)
Dispatch(r) ==
    /\ req[r].pc = "queued"
    /\ LoopFree
    /\ IF ValidRequest(req[r].kind, req[r].arg)
       THEN req' = [req EXCEPT ![r].pc = "running"]
       ELSE Finish(r, Reply(422, [detail |-> "validation error"]), req[r].obs)
    /\ UNCHANGED <<names, edges, running, launched>>

(* The client has read the response; the connection is free again.         *)
Collect(r) ==
    /\ req[r].pc = "done"
    /\ req' = [req EXCEPT ![r] = Idle]
    /\ UNCHANGED <<names, edges, running, launched>>

--------------------------------------------------------------------------
(* GET /api/graph.                                                         *)

GraphBody(nodes, links) == Reply(200, [nodes |-> nodes, links |-> links])

(* An except clause that answers with what had been fetched.               *)
GraphFailurePartial(fetched) == [status |-> 200, body |-> [nodes |-> fetched, links |-> EmptyBag]]

(* except Exception of get_graph_data: whatever had been fetched is        *)
(* dropped and the answer is an error.                                     *)
GraphFailure(fetched) == Reply(500, [detail |-> "Error fetching graph data"])

get_graph_data(r) ==
    /\ req[r].kind = "get_graph_data"
    /\ \/ /\ req[r].pc = "running"
          /\ \E up \in BOOLEAN :
                IF up
                THEN req' = [req EXCEPT ![r].pc = "second",
                                        ![r].loc = NodeRows,
                                        ![r].obs.ver1 = StoreVersion]
                ELSE Finish(r, GraphFailure({}),
                            [req[r].obs EXCEPT !.fails = @ + 1])
       \/ /\ req[r].pc = "second"
          /\ \E up \in BOOLEAN :
                IF up
                THEN Finish(r, GraphBody(req[r].loc, LinkRows),
                            [req[r].obs EXCEPT !.ver2 = StoreVersion])
                ELSE Finish(r, GraphFailure(req[r].loc),
                            [req[r].obs EXCEPT !.fails = @ + 1])
    /\ UNCHANGED <<names, edges, running, launched>>

--------------------------------------------------------------------------
(* GET /api/statistics.                                                    *)

StatisticsBody(concept_count, relationship_count) ==
    Reply(200, [conceptCount |-> concept_count,
                relationshipCount |-> relationship_count])

StatisticsFailure(fetched) == Reply(500, [detail |-> "Error fetching statistics"])

get_statistics(r) ==
    /\ req[r].kind = "get_statistics"
    /\ \/ /\ req[r].pc = "running"
          /\ \E up \in BOOLEAN :
                IF up
                THEN req' = [req EXCEPT ![r].pc = "second",
                                        ![r].loc = ConceptCount,
                                        ![r].obs.ver1 = StoreVersion]
                ELSE Finish(r, StatisticsFailure(0),
                            [req[r].obs EXCEPT !.fails = @ + 1])
       \/ /\ req[r].pc = "second"
          /\ \E up \in BOOLEAN :
                IF up
                THEN Finish(r, StatisticsBody(req[r].loc, RelationshipCount),
                            [req[r].obs EXCEPT !.ver2 = StoreVersion])
                ELSE Finish(r, StatisticsFailure(req[r].loc),
                            [req[r].obs EXCEPT !.fails = @ + 1])
    /\ UNCHANGED <<names, edges, running, launched>>

--------------------------------------------------------------------------
(* GET /api/concepts/search.                                               *)

search_concepts(r) ==
    /\ req[r].kind = "search_concepts"
    /\ req[r].pc = "running"
    /\ \E up \in BOOLEAN :
          IF up
          THEN \E rows \in SearchResults(req[r].arg.q) :
                  Finish(r, Reply(200, rows),
                         [req[r].obs EXCEPT !.ver1 = StoreVersion])
          ELSE Finish(r, Reply(500, [detail |-> "Error searching concepts"]),
                      [req[r].obs EXCEPT !.fails = @ + 1])
    /\ UNCHANGED <<names, edges, running, launched>>

--------------------------------------------------------------------------
(* POST /api/relationships.                                                *)

(* MERGE in the place of CREATE: an existing relationship is reused.       *)
MergeEdge(e) == IF BagIn(e, edges) THEN edges ELSE edges (+) SetToBag({e})

(* CREATE (a)-[r:type]->(b): one more relationship, whatever exists.       *)
CreateEdge(e) == edges (+) SetToBag({e})

RelationshipBody(e) ==
    Reply(200, [source |-> Str(e.source), target |-> Str(e.target), type |-> e.type])

(* except Exception of create_relationship: every exception raised in the  *)
(* try block, the HTTPException(404) of "if not record" included, is       *)
(* answered as a 500.                                                      *)
RelationshipFailure(exc) ==
    Reply(500, [detail |-> <<"Error creating relationship", exc>>])

create_relationship(r) ==
    LET a == req[r].arg
        source == ParseInt(a.source)
        target == ParseInt(a.target)
        spliced == SplicedType(a.type)
        e == [source |-> source.value, target |-> target.value, type |-> spliced.type]
    IN  /\ req[r].kind = "create_relationship"
        /\ req[r].pc = "running"
        /\ UNCHANGED <<names, running, launched>>
        /\ IF ~source.ok \/ ~target.ok
           THEN /\ Finish(r, RelationshipFailure("ValueError"), req[r].obs)
                /\ UNCHANGED edges
           ELSE \E up \in BOOLEAN :
                  IF ~up \/ ~spliced.ok
                  THEN /\ Finish(r, RelationshipFailure(IF up THEN "CypherSyntaxError"
                                                          ELSE "ServiceUnavailable"),
                                 [req[r].obs EXCEPT !.fails = @ + 1])
                       /\ UNCHANGED edges
                  ELSE IF source.value \in ConceptIds /\ target.value \in ConceptIds
                  THEN /\ BagCardinality(edges) < MaxEdges
                       /\ edges' = CreateEdge(e)
                       /\ Finish(r, RelationshipBody(e),
                                 [req[r].obs EXCEPT !.ver1 = StoreVersion,
                                                    !.n = Len(names),
                                                    !.delta = BagCardinality(edges')
                                                              - BagCardinality(edges)])
                  ELSE /\ Finish(r, RelationshipFailure("404: Concepts not found"),
                                 [req[r].obs EXCEPT !.ver1 = StoreVersion,
                                                    !.n = Len(names)])
                       /\ UNCHANGED edges

--------------------------------------------------------------------------
(* The worker scripts and the four endpoints that run them.                *)

BuilderStartCommand(p) ==
    <<"/bin/sh", "/app/start-builder.sh",
      "--seed", p.seedConcept.v,
      "--max-nodes", p.maxNodes.v,
      "--timeout", p.timeout.v,
      "--random-relationships", p.randomRelationships.v,
      "--concurrency", p.concurrency.v>>

BuilderStopCommand == <<"/bin/sh", "/app/stop-builder.sh">>

EnricherStartCommand(p) ==
    <<"/bin/sh", "/app/start-enricher.sh",
      "--batch-size", p.batchSize.v,
      "--interval", p.interval.v,
      "--max-relationships", p.maxRelationships.v,
      "--concurrency", p.concurrency.v>>

EnricherStopCommand == <<"/bin/sh", "/app/stop-enricher.sh">>

ScriptWorker(command) ==
    IF command[2] \in {"/app/start-builder.sh", "/app/stop-builder.sh"}
    THEN "builder" ELSE "enricher"

ScriptStarts(command) ==
    command[2] \in {"/app/start-builder.sh", "/app/start-enricher.sh"}

(* The exit statuses a script may end with. The scripts are not part of    *)
(* server.py: a start script may succeed or fail, a stop script may fail   *)
(* only while its worker is alive (stopping a stopped worker is a no-op).  *)
ExitCodes(command) ==
    IF ScriptStarts(command) \/ running[ScriptWorker(command)] THEN {0, 1} ELSE {0}

(* The exit status tested the wrong way round.                             *)
RunRaisesOnSuccess(code) == code = 0

(* subprocess.run(..., check=True): a non-zero exit status raises          *)
(* CalledProcessError.                                                     *)
RunRaises(code) == code # 0

CommandSucceeded(message) ==
    Reply(200, [status |-> "success", message |-> message, output |-> "stdout"])

(* run_command's HTTPException(500), wrapped once more by the handler.     *)
CommandFailure(error) == Reply(500, [detail |-> <<error, "Command failed", "stderr">>])

(* What a script that ended with an exit status leaves of its worker: a    *)
(* start script that succeeds leaves it alive, a stop script that         *)
(* succeeds leaves it stopped, a failed script changes nothing.            *)
ScriptRunning(command, code) ==
    IF code # 0 THEN running
    ELSE [running EXCEPT ![ScriptWorker(command)] = ScriptStarts(command)]

(* A launch of a start script counts when it succeeds or finds the worker  *)
(* alive; the count starts again when the worker is stopped.               *)
LaunchCounts(command, code) ==
    ScriptStarts(command) /\ (code = 0 \/ running[ScriptWorker(command)])

ScriptLaunched(command, code) ==
    IF LaunchCounts(command, code)
    THEN [launched EXCEPT ![ScriptWorker(command)] = @ + 1]
    ELSE IF code = 0 THEN [launched EXCEPT ![ScriptWorker(command)] = 0]
    ELSE launched

(* run_command(command) and the handler's return around it.                *)
RunCommand(r, command, message, error) ==
    \E code \in ExitCodes(command) :
        /\ LaunchCounts(command, code) => launched[ScriptWorker(command)] < MaxLaunches
        /\ running' = ScriptRunning(command, code)
        /\ launched' = ScriptLaunched(command, code)
        /\ Finish(r, IF RunRaises(code) THEN CommandFailure(error)
                     ELSE CommandSucceeded(message),
                  [req[r].obs EXCEPT !.scripts = @ + 1,
                                     !.live = running[ScriptWorker(command)],
                                     !.fails = IF code # 0 THEN @ + 1 ELSE @])
        /\ UNCHANGED <<names, edges>>

start_builder(r) ==
    /\ req[r].kind = "start_builder"
    /\ req[r].pc = "running"
    /\ RunCommand(r, BuilderStartCommand(req[r].arg),
                  "Builder started successfully", "Error starting builder")

stop_builder(r) ==
    /\ req[r].kind = "stop_builder"
    /\ req[r].pc = "running"
    /\ RunCommand(r, BuilderStopCommand,
                  "Builder stopped successfully", "Error stopping builder")

start_enricher(r) ==
    /\ req[r].kind = "start_enricher"
    /\ req[r].pc = "running"
    /\ RunCommand(r, EnricherStartCommand(req[r].arg),
                  "Enricher started successfully", "Error starting enricher")

stop_enricher(r) ==
    /\ req[r].kind = "stop_enricher"
    /\ req[r].pc = "running"
    /\ RunCommand(r, EnricherStopCommand,
                  "Enricher stopped successfully", "Error stopping enricher")

--------------------------------------------------------------------------
(* The environment: a worker adds a Concept to the store, a worker exits.   *)

AddConcept(limit, named) ==
    /\ Len(names) < limit
    /\ \E n \in named : names' = Append(names, n)
    /\ UNCHANGED <<edges, running, launched, req>>

WorkerExit(w) ==
    /\ running[w]
    /\ running' = [running EXCEPT ![w] = FALSE]
    /\ launched' = [launched EXCEPT ![w] = 0]
    /\ UNCHANGED <<names, edges, req>>

--------------------------------------------------------------------------
(* Specifications: the same server under three kinds of traffic.           *)

NextGraph ==
    \/ \E r \in Requests : Arrive(r, GraphInputs)
    \/ \E r \in Requests : Dispatch(r)
    \/ \E r \in Requests : get_graph_data(r)
    \/ \E r \in Requests : get_statistics(r)
    \/ \E r \in Requests : create_relationship(r)
    \/ \E r \in Requests : Collect(r)
    \/ AddConcept(MaxConcepts, {<<"a", "b">>})

SpecGraph == Init /\ [][NextGraph]_vars

NextSearch ==
    \/ \E r \in {1} : Arrive(r, SearchInputs)
    \/ \E r \in {1} : Dispatch(r)
    \/ \E r \in {1} : search_concepts(r)
    \/ \E r \in {1} : Collect(r)
    \/ AddConcept(MaxSearchConcepts, Names)

SpecSearch == Init /\ [][NextSearch]_vars

NextWorkers ==
    \/ \E r \in Requests : Arrive(r, WorkerInputs)
    \/ \E r \in Requests : Dispatch(r)
    \/ \E r \in Requests : start_builder(r)
    \/ \E r \in Requests : stop_builder(r)
    \/ \E r \in Requests : start_enricher(r)
    \/ \E r \in Requests : stop_enricher(r)
    \/ \E r \in Requests : Collect(r)
    \/ \E w \in Workers : WorkerExit(w)

SpecWorkers == Init /\ [][NextWorkers]_vars

--------------------------------------------------------------------------
(* Properties.                                                             *)

Done(r, kind) == req[r].kind = kind /\ req[r].pc = "done"

IsDecimal(s) == s # <<>> /\ \A i \in 1..Len(s) : IsDigit(s[i])

(* create_relationship's statement ran and an endpoint matched no Concept. *)
Unresolved(r) ==
    /\ req[r].obs.n >= 0
    /\ \/ ParseInt(req[r].arg.source).value \notin 0..(req[r].obs.n - 1)
       \/ ParseInt(req[r].arg.target).value \notin 0..(req[r].obs.n - 1)

(* C1: a create_relationship whose source or target id resolves to no      *)
(* Concept is answered 404 and creates no relationship.                    *)
C1_MissingEndpointIsNotFound ==
    \A r \in Requests :
        (Done(r, "create_relationship") /\ Unresolved(r))
            => (req[r].status = 404 /\ req[r].obs.delta = 0)

(* C2: a worker's start script is launched at most once while the worker   *)
(* is running, whatever the order of the start requests.                   *)
C2_SingleLaunch == \A w \in Workers : launched[w] <= 1

C4_CreatedLinkIsListed ==
    \A c \in Requests, g \in Requests :
        (/\ Done(c, "create_relationship") /\ req[c].status = 200
         /\ Done(g, "get_graph_data") /\ req[g].status = 200
         /\ req[g].obs.ver2 > req[c].obs.ver1)
            => \E l \in DOMAIN req[g].body.links :
                  /\ l.source = Str(ParseInt(req[c].arg.source).value)
                  /\ l.target = Str(ParseInt(req[c].arg.target).value)
                  /\ l.type = req[c].arg.type

(* C5: a search answers with at most 10 Concepts and each of them has a    *)
(* name that contains the query.                                           *)
C5_SearchBoundedAndMatching ==
    \A r \in Requests :
        (Done(r, "search_concepts") /\ req[r].status = 200)
            => /\ Cardinality(req[r].body) <= 10
               /\ \A c \in req[r].body : Contains(c.name, req[r].arg.q)

C5_Witness ==
    \E r \in Requests :
        /\ Done(r, "search_concepts") /\ req[r].status = 200
        /\ Cardinality(req[r].body) = 10
        /\ Cardinality({ i \in 1..req[r].obs.ver1 :
                            Contains(names[i], req[r].arg.q) }) > 10
        /\ \E i \in 1..req[r].obs.ver1 : ~Contains(names[i], req[r].arg.q)

(* C6: when nothing was written between the node query of get_graph_data   *)
(* and the Concept count of get_statistics, conceptCount is the number of  *)
(* distinct ids among the nodes.                                           *)
C6_ConceptCountMatchesNodes ==
    \A g \in Requests, s \in Requests :
        (/\ Done(g, "get_graph_data") /\ req[g].status = 200
         /\ Done(s, "get_statistics") /\ req[s].status = 200
         /\ req[g].obs.ver1 = req[s].obs.ver1)
            => req[s].body.conceptCount
                 = Cardinality({ n.id : n \in req[g].body.nodes })

C6_Witness ==
    \E g \in Requests, s \in Requests :
        /\ Done(g, "get_graph_data") /\ req[g].status = 200
        /\ Done(s, "get_statistics") /\ req[s].status = 200
        /\ req[g].obs.ver1 = req[s].obs.ver1
        /\ req[s].body.conceptCount = 2
        /\ req[s].body.relationshipCount = 1

(* A request FastAPI's validation or the text of an id makes malformed.    *)
Malformed(kind, arg) ==
    \/ ~ValidRequest(kind, arg)
    \/ /\ kind = "create_relationship"
       /\ ~IsDecimal(arg.source) \/ ~IsDecimal(arg.target)

(* C7: a malformed request is answered 422 or 400, creates no relationship *)
(* and launches no script.                                                 *)
C7_MalformedIsRejected ==
    \A r \in Requests :
        (req[r].pc = "done" /\ Malformed(req[r].kind, req[r].arg))
            => /\ req[r].status \in {400, 422}
               /\ req[r].obs.delta = 0
               /\ req[r].obs.scripts = 0

(* C8: while a request is inside its handler (blocked in a store query or  *)
(* a script), any other waiting request can be taken up.                   *)
C8_OthersAreServed ==
    \A r \in Requests, other \in Requests :
        (req[r].pc \in {"running", "second"} /\ req[other].pc = "queued")
            => ENABLED Dispatch(other)

(* C9: a get_graph_data or get_statistics under which a query failed is    *)
(* answered 500 with nothing but the error, one under which none failed    *)
(* 200 with both of its parts; a request has one response when it is done  *)
(* and none before.                                                        *)
C9_ReadsAreAllOrNothing ==
    \A r \in Requests :
        /\ req[r].sent = (IF req[r].pc = "done" THEN 1 ELSE 0)
        /\ (Done(r, "get_graph_data") \/ Done(r, "get_statistics"))
            => IF req[r].obs.fails > 0
               THEN req[r].status = 500 /\ DOMAIN req[r].body = {"detail"}
               ELSE /\ req[r].status = 200
                    /\ req[r].obs.ver1 >= 0 /\ req[r].obs.ver2 >= 0
                    /\ DOMAIN req[r].body
                         = (IF req[r].kind = "get_graph_data"
                            THEN {"nodes", "links"}
                            ELSE {"conceptCount", "relationshipCount"})

C9_Witness ==
    \E g \in Requests, s \in Requests :
        /\ Done(g, "get_graph_data") /\ req[g].obs.fails = 1
        /\ req[g].obs.ver1 >= 0 /\ req[g].status = 500
        /\ Done(s, "get_statistics") /\ req[s].obs.fails = 1
        /\ req[s].obs.ver1 >= 0 /\ req[s].status = 500

(* The step in which create_relationship answers 200 adds one copy of the  *)
(* answered relationship to the store, and nothing else.                   *)
CreateAddsOne ==
    \A r \in Requests :
        (/\ req[r].kind = "create_relationship" /\ req[r].pc = "running"
         /\ req'[r].pc = "done" /\ req'[r].status = 200)
            => LET e == [source |-> ParseInt(req[r].arg.source).value,
                         target |-> ParseInt(req[r].arg.target).value,
                         type |-> req'[r].body.type]
               IN  /\ CopiesIn(e, edges') = CopiesIn(e, edges) + 1
                   /\ BagCardinality(edges') = BagCardinality(edges) + 1

(* A get_graph_data read since the last write lists every relationship of  *)
(* the store as often as the store holds it.                               *)
GraphListsEveryCopy ==
    \A g \in Requests :
        (Done(g, "get_graph_data") /\ req[g].status = 200
            /\ req[g].obs.ver2 = StoreVersion)
            => /\ BagCardinality(req[g].body.links) = BagCardinality(edges)
               /\ \A e \in BagToSet(edges) :
                     CopiesIn(LinkRowOf(e), req[g].body.links) = CopiesIn(e, edges)

====
